---------------------------- MODULE Spec2Model ----------------------------
(***************************************************************************)
(* Model of the secure file-transfer handshake and channel:                *)
(*   - server side  authenticate()  (server/authentication.cpp)            *)
(*   - client side  rename()        (client/actions/rename.cpp)            *)
(* Every library call that has a failure branch in the code is one step    *)
(* whose outcome is chosen nondeterministically.  handle_errors() does not *)
(* return: the code after each call of it uses values that exist only on   *)
(* the success path, so an error exit ends the run in "Failed".            *)
(***************************************************************************)
EXTENDS Integers, Sequences, FiniteSets, TLC

\* ------------------------------------------------------------------------
\* Bounds of the model
\* ------------------------------------------------------------------------
\* longest tail appended to a base name in a transmitted username field
MaxTail == 2
\* maximum length of a packet field (scaled down)
FLEN_MAX == 2
\* width of a filename field (scaled down)
FNAME_MAX_LEN == 2
\* number of rename() calls on one connection
MaxCalls == 2
\* number of distinct initialization vectors
MaxIV == 2
\* length of the authentication tag (scaled down)
TAG_LEN == 1

\* ------------------------------------------------------------------------
\* Values
\* ------------------------------------------------------------------------
NUL == "NUL"
alice == <<"a", "l", "i", "c", "e">>
bob == <<"b", "o", "b">>
eve == <<"e", "v", "e">>

\* string users[2] = {"alice", "bob"}
users == <<alice, bob>>

\* char server_name[] = "server"  (sizeof includes the terminator)
server_name == <<"s", "e", "r", "v", "e", "r", NUL>>

AuthStart == "AuthStart"
AuthServerAns == "AuthServerAns"
RenameReq == "RenameReq"
\* message types a peer can put in the first header
MTypes == {AuthStart, AuthServerAns, RenameReq}

nullptr == "nullptr"

\* ephemeral keys of the client (public halves) and of the server (pairs)
ClientKeys == {"Ka1", "Ka2"}
ServerKeys == {"Ks1", "Ks2"}

\* the PEM text of a public key, and a field that is not a PEM public key
PEM(k) == <<"PEM", k>>
Junk == <<"junk">>

\* all sequences over S of length at most n
RECURSIVE SeqsUpTo(_, _)
SeqsUpTo(S, n) ==
    IF n = 0 THEN {<<>>}
    ELSE LET shorter == SeqsUpTo(S, n - 1)
         IN shorter \cup {Append(s, x) : s \in {t \in shorter : Len(t) = n - 1}, x \in S}

\* username fields a client can transmit: a base name followed by a short
\* tail of terminator and non-terminator bytes
UsernameFields ==
    {base \o tail : base \in {alice, bob, eve, <<>>},
                    tail \in SeqsUpTo({NUL, "x"}, MaxTail)}

\* key fields a client can transmit
HalfKeyFields == {PEM(k) : k \in ClientKeys} \cup {Junk}

\* ------------------------------------------------------------------------
\* State
\* ------------------------------------------------------------------------
VARIABLES
    pc,                  \* position of authenticate()
    user_keys,           \* map<string, EVP_PKEY*>: the names in the map
    heap,                \* live allocations of authenticate()
    rcvd,                \* what authenticate() has read from the socket
    sent,                \* what authenticate() has put on the socket
    client_header_result,\* result of get_mtype
    tx_username,         \* the username field as transmitted
    username,            \* the username buffer
    username_len,
    oob,                 \* an access outside a buffer has happened
    finder,              \* the key given to user_keys.find
    tmp_bio,             \* contents of the memory BIO
    client_half_key_pem,
    client_half_key,
    keypair,
    server_half_key_len,
    server_half_key_pem,
    server_certificate_len,
    sign_ctx,            \* data absorbed by the signing context
    server_signature,
    server_signature_len,
    kdf_secret,          \* first argument of kdf
    ret,                 \* tuple returned by authenticate()
    rpc,                 \* position of rename()
    rheap,               \* live allocations of rename()
    rfreed,              \* allocations of rename() released so far
    seq_num,             \* global send sequence counter
    calls,               \* number of rename() calls started
    f_old,
    f_new,
    iv,
    ctx,                 \* cipher context: IV, associated data, plaintext absorbed
    ct,
    ct_len,
    len,
    tag,
    wire,                \* what the current rename() call has put on the socket
    frames,              \* the frame headers sent on the connection, oldest first
    ivs                  \* the IVs gen_iv has returned on the connection, oldest first

authVars == <<pc, user_keys, heap, rcvd, sent, client_header_result,
              tx_username, username, username_len, oob, finder, tmp_bio,
              client_half_key_pem, client_half_key, keypair,
              server_half_key_len, server_half_key_pem,
              server_certificate_len, sign_ctx, server_signature,
              server_signature_len, kdf_secret, ret>>

renameVars == <<rpc, rheap, rfreed, seq_num, calls, f_old, f_new, iv, ctx,
                ct, ct_len, len, tag, wire, frames, ivs>>

vars == <<authVars, renameVars>>

\* ------------------------------------------------------------------------
\* Helpers of the server side
\* ------------------------------------------------------------------------
\* the EVP_PKEY allocated for a registered user
EVP_PKEY_of(u) == IF u = alice THEN "pubkey_alice" ELSE "pubkey_bob"

\* free_user_keys(keys): the allocations it releases
free_user_keys(keys) == {EVP_PKEY_of(u) : u \in keys}

\* results get_mtype can give
HeaderResults ==
    {[is_error |-> TRUE, result |-> nullptr]}
        \cup {[is_error |-> FALSE, result |-> t] : t \in MTypes}

\* the test written with && for ||
BadHeader_and(r) == r.is_error /\ r.result # AuthStart

\* the test of the first message: is_error || result != AuthStart
BadHeader(r) == r.is_error \/ r.result # AuthStart

\* the C string that starts at the beginning of a terminated buffer
RECURSIVE CStr(_)
CStr(b) ==
    IF b = <<>> \/ Head(b) = NUL THEN <<>>
    ELSE <<Head(b)>> \o CStr(Tail(b))

\* the buffer after  username[username_len - 1] = '\0'
Terminate(f) == [f EXCEPT ![Len(f)] = NUL]

\* strings a read past the end of an empty buffer can produce
OOBStrings == {alice, bob, eve, <<>>}

\* the value of finder before the lookup
NotLooked == <<nullptr>>

\* a lookup whose result is never the end of the map
Found_always(keys, k) == TRUE

\* user_keys.find(key) != user_keys.end()
Found(keys, key) == key \in keys

\* PEM_read_bio_PUBKEY on the memory BIO
PEM_read_bio_PUBKEY(bio) ==
    IF bio # <<>> /\ Head(bio)[1] = "PEM" THEN Head(bio)[2] ELSE nullptr

\* the server certificate in PEM form
X509 == <<"X509", "server.crt">>

\* err |= r  on results that are 0 or 1
BitOr(a, b) == IF a = 1 \/ b = 1 THEN 1 ELSE 0

\* the part of the transcript a sign-update call absorbs: nothing if it fails
Absorb(r, part) == IF r = 1 THEN <<part>> ELSE <<>>

\* EVP_SignFinal with the server's private key over the absorbed data
Sign(data) == <<"sig", "server.key", data>>

\* key derivation from a secret
kdf(secret) == <<"kdf", secret>>

\* Diffie-Hellman shared secret of a private half and a peer public key
DH(priv, pub) == <<"DH", priv, pub>>

\* one message put on the socket by the server
Msg(part, n, data) == [part |-> part, len |-> n, data |-> data]

\* ------------------------------------------------------------------------
\* authenticate(): initial state
\* ------------------------------------------------------------------------
AuthInit ==
    /\ pc = "setup_keys"
    /\ user_keys = {}
    /\ heap = {}
    /\ rcvd = <<>>
    /\ sent = <<>>
    /\ client_header_result = [is_error |-> FALSE, result |-> nullptr]
    /\ tx_username = <<>>
    /\ username = <<>>
    /\ username_len = 0
    /\ oob = FALSE
    /\ finder = NotLooked
    /\ tmp_bio = <<>>
    /\ client_half_key_pem = <<>>
    /\ client_half_key = nullptr
    /\ keypair = nullptr
    /\ server_half_key_len = 0
    /\ server_half_key_pem = <<>>
    /\ server_certificate_len = 0
    /\ sign_ctx = <<>>
    /\ server_signature = <<>>
    /\ server_signature_len = 0
    /\ kdf_secret = <<>>
    /\ ret = <<>>

\* ------------------------------------------------------------------------
\* authenticate(): steps
\* ------------------------------------------------------------------------
\* setup_keys(): one iteration of the loop over users
setup_keys ==
    /\ pc = "setup_keys"
    /\ LET user == users[Cardinality(user_keys) + 1] IN
       \/ \* fopen fails: user_map.clear(), abort()
          /\ user_keys' = {}
          /\ pc' = "Aborted"
          /\ UNCHANGED heap
       \/ \* PEM_read_PUBKEY fails: free_user_keys, handle_errors
          /\ heap' = (heap \ free_user_keys(user_keys)) \cup {"public_key_fp"}
          /\ pc' = "Failed"
          /\ UNCHANGED user_keys
       \/ \* the key is read and inserted
          /\ user_keys' = user_keys \cup {user}
          /\ heap' = heap \cup {EVP_PKEY_of(user)}
          /\ pc' = IF Cardinality(user_keys) + 1 = Len(users)
                   THEN "get_mtype" ELSE "setup_keys"
    /\ UNCHANGED <<rcvd, sent, client_header_result, tx_username,
                 username, username_len, oob, finder, tmp_bio,
                 client_half_key_pem, client_half_key, keypair,
                 server_half_key_len, server_half_key_pem,
                 server_certificate_len, sign_ctx,
                 server_signature, server_signature_len,
                 kdf_secret, ret, renameVars>>

\* receive the first client message and check its type
get_mtype ==
    /\ pc = "get_mtype"
    /\ \E r \in HeaderResults :
        /\ client_header_result' = r
        /\ rcvd' = IF r.is_error THEN rcvd ELSE Append(rcvd, "mtype")
        /\ IF BadHeader(r)
           THEN /\ heap' = heap \ free_user_keys(user_keys)
                /\ pc' = "Failed"
           ELSE /\ pc' = "read_username"
                /\ UNCHANGED heap
    /\ UNCHANGED <<user_keys, sent, tx_username, username, username_len,
                 oob, finder, tmp_bio, client_half_key_pem,
                 client_half_key, keypair, server_half_key_len,
                 server_half_key_pem, server_certificate_len,
                 sign_ctx, server_signature,
                 server_signature_len, kdf_secret, ret,
                 renameVars>>

\* read the username field and terminate it
read_username ==
    /\ pc = "read_username"
    /\ \/ \* read_field fails
          /\ heap' = heap \ free_user_keys(user_keys)
          /\ pc' = "Failed"
          /\ UNCHANGED <<rcvd, tx_username, username, username_len, oob>>
       \/ \E f \in UsernameFields :
          /\ tx_username' = f
          /\ username_len' = Len(f)
          /\ rcvd' = Append(rcvd, "username")
          /\ heap' = heap \cup {"username"}
          /\ IF Len(f) = 0
             THEN \* the write at index -1 is outside the buffer
                  /\ oob' = TRUE
                  /\ username' = f
                  /\ pc' \in {"find_user", "Crashed"}
             ELSE /\ username' = Terminate(f)
                  /\ pc' = "find_user"
                  /\ UNCHANGED oob
    /\ UNCHANGED <<user_keys, sent, client_header_result, finder,
                 tmp_bio, client_half_key_pem, client_half_key,
                 keypair, server_half_key_len,
                 server_half_key_pem, server_certificate_len,
                 sign_ctx, server_signature,
                 server_signature_len, kdf_secret, ret,
                 renameVars>>

\* look the username up in the map of registered users
find_user ==
    /\ pc = "find_user"
    /\ \E key \in (IF username_len = 0 THEN OOBStrings ELSE {CStr(username)}) :
        /\ finder' = key
        /\ IF Found(user_keys, key)
           THEN /\ pc' = "bio_new"
                /\ UNCHANGED heap
           ELSE /\ heap' = heap \ (free_user_keys(user_keys) \cup {"username"})
                /\ pc' = "Failed"
    /\ UNCHANGED <<user_keys, rcvd, sent, client_header_result,
                 tx_username, username, username_len, oob,
                 tmp_bio, client_half_key_pem, client_half_key,
                 keypair, server_half_key_len,
                 server_half_key_pem, server_certificate_len,
                 sign_ctx, server_signature,
                 server_signature_len, kdf_secret, ret,
                 renameVars>>

\* allocate the memory BIO
bio_new ==
    /\ pc = "bio_new"
    /\ \/ /\ heap' = heap \cup {"tmp_bio"}
          /\ tmp_bio' = <<>>
          /\ pc' = "read_half_key"
       \/ /\ heap' = heap \ (free_user_keys(user_keys) \cup {"username"})
          /\ pc' = "Failed"
          /\ UNCHANGED tmp_bio
    /\ UNCHANGED <<user_keys, rcvd, sent, client_header_result,
                 tx_username, username, username_len, oob,
                 finder, client_half_key_pem, client_half_key,
                 keypair, server_half_key_len,
                 server_half_key_pem, server_certificate_len,
                 sign_ctx, server_signature,
                 server_signature_len, kdf_secret, ret,
                 renameVars>>

\* read the client half key in PEM format
read_half_key ==
    /\ pc = "read_half_key"
    /\ \/ \E f \in HalfKeyFields :
          /\ client_half_key_pem' = f
          /\ rcvd' = Append(rcvd, "half_key")
          /\ heap' = heap \cup {"client_half_key_pem"}
          /\ pc' = "bio_write"
       \/ /\ heap' = heap \ (free_user_keys(user_keys) \cup {"username", "tmp_bio"})
          /\ pc' = "Failed"
          /\ UNCHANGED <<client_half_key_pem, rcvd>>
    /\ UNCHANGED <<user_keys, sent, client_header_result, tx_username,
                 username, username_len, oob, finder, tmp_bio,
                 client_half_key, keypair, server_half_key_len,
                 server_half_key_pem, server_certificate_len,
                 sign_ctx, server_signature,
                 server_signature_len, kdf_secret, ret,
                 renameVars>>

\* write the client half key to the memory BIO
bio_write ==
    /\ pc = "bio_write"
    /\ \/ /\ tmp_bio' = Append(tmp_bio, client_half_key_pem)
          /\ pc' = "pem_read_pubkey"
          /\ UNCHANGED heap
       \/ /\ heap' = heap \ (free_user_keys(user_keys)
                               \cup {"username", "client_half_key_pem", "tmp_bio"})
          /\ pc' = "Failed"
          /\ UNCHANGED tmp_bio
    /\ UNCHANGED <<user_keys, rcvd, sent, client_header_result,
                 tx_username, username, username_len, oob,
                 finder, client_half_key_pem, client_half_key,
                 keypair, server_half_key_len,
                 server_half_key_pem, server_certificate_len,
                 sign_ctx, server_signature,
                 server_signature_len, kdf_secret, ret,
                 renameVars>>

\* extract the client half key from the memory BIO
pem_read_pubkey ==
    /\ pc = "pem_read_pubkey"
    /\ \/ /\ PEM_read_bio_PUBKEY(tmp_bio) # nullptr
          /\ client_half_key' = PEM_read_bio_PUBKEY(tmp_bio)
          /\ heap' = heap \cup {"client_half_key"}
          /\ tmp_bio' = <<>>
          /\ pc' = "send_header"
       \/ \* the field is not a key, or the library fails
          /\ heap' = heap \ (free_user_keys(user_keys)
                               \cup {"username", "client_half_key_pem", "tmp_bio"})
          /\ pc' = "Failed"
          /\ UNCHANGED <<client_half_key, tmp_bio>>
    /\ UNCHANGED <<user_keys, rcvd, sent, client_header_result,
                 tx_username, username, username_len, oob,
                 finder, client_half_key_pem, keypair,
                 server_half_key_len, server_half_key_pem,
                 server_certificate_len, sign_ctx,
                 server_signature, server_signature_len,
                 kdf_secret, ret, renameVars>>

\* what the error exits between the client's message and the key pair release
FreeA == free_user_keys(user_keys)
            \cup {"username", "client_half_key_pem", "client_half_key"}

\* send the header tagged AuthServerAns
send_header ==
    /\ pc = "send_header"
    /\ \/ /\ sent' = Append(sent, Msg("header", 0, <<AuthServerAns>>))
          /\ pc' = "send_server_name"
          /\ UNCHANGED heap
       \/ /\ heap' = heap \ FreeA
          /\ pc' = "Failed"
          /\ UNCHANGED sent
    /\ UNCHANGED <<user_keys, rcvd, client_header_result, tx_username,
                 username, username_len, oob, finder, tmp_bio,
                 client_half_key_pem, client_half_key, keypair,
                 server_half_key_len, server_half_key_pem,
                 server_certificate_len, sign_ctx,
                 server_signature, server_signature_len,
                 kdf_secret, ret, renameVars>>

\* send the server name without looking at the result of the send
send_server_name_unchecked ==
    /\ pc = "send_server_name"
    /\ \/ sent' = Append(sent, Msg("server_name", Len(server_name), server_name))
       \/ UNCHANGED sent
    /\ pc' = "gen_keypair"
    /\ UNCHANGED heap
    /\ UNCHANGED <<user_keys, heap, rcvd, client_header_result,
                 tx_username, username, username_len, oob,
                 finder, tmp_bio, client_half_key_pem,
                 client_half_key, keypair, server_half_key_len,
                 server_half_key_pem, server_certificate_len,
                 sign_ctx, server_signature,
                 server_signature_len, kdf_secret, ret,
                 renameVars>>

\* send the server name
send_server_name ==
    /\ pc = "send_server_name"
    /\ \/ /\ sent' = Append(sent, Msg("server_name", Len(server_name), server_name))
          /\ pc' = "gen_keypair"
          /\ UNCHANGED heap
       \/ /\ heap' = heap \ FreeA
          /\ pc' = "Failed"
          /\ UNCHANGED sent
    /\ UNCHANGED <<user_keys, rcvd, client_header_result, tx_username,
                 username, username_len, oob, finder, tmp_bio,
                 client_half_key_pem, client_half_key, keypair,
                 server_half_key_len, server_half_key_pem,
                 server_certificate_len, sign_ctx,
                 server_signature, server_signature_len,
                 kdf_secret, ret, renameVars>>

\* what the error exits of the key and certificate part release, before the
\* copy of the server half key exists
FreeB == FreeA \cup {"tmp_bio"}

\* generate the server key pair and write its public key to the memory BIO
gen_keypair ==
    /\ pc = "gen_keypair"
    /\ \E k \in ServerKeys :
        /\ keypair' = k
        /\ \/ /\ tmp_bio' = Append(tmp_bio, PEM(k))
              /\ heap' = heap \cup {"keypair"}
              /\ pc' = "get_mem_data_key"
           \/ /\ heap' = (heap \cup {"keypair"}) \ FreeB
              /\ pc' = "Failed"
              /\ UNCHANGED tmp_bio
    /\ UNCHANGED <<user_keys, rcvd, sent, client_header_result,
                 tx_username, username, username_len, oob,
                 finder, client_half_key_pem, client_half_key,
                 server_half_key_len, server_half_key_pem,
                 server_certificate_len, sign_ctx,
                 server_signature, server_signature_len,
                 kdf_secret, ret, renameVars>>

\* get the length of the server half key held by the memory BIO
get_mem_data_key ==
    /\ pc = "get_mem_data_key"
    /\ \E n \in 0..(FLEN_MAX + 1) :
        /\ server_half_key_len' = n
        /\ IF n <= 0
           THEN /\ heap' = heap \ FreeB
                /\ pc' = "Failed"
           ELSE /\ pc' = "check_key_len"
                /\ UNCHANGED heap
    /\ UNCHANGED <<user_keys, rcvd, sent, client_header_result,
                 tx_username, username, username_len, oob,
                 finder, tmp_bio, client_half_key_pem,
                 client_half_key, keypair, server_half_key_pem,
                 server_certificate_len, sign_ctx,
                 server_signature, server_signature_len,
                 kdf_secret, ret, renameVars>>

\* check the length against FLEN_MAX and copy the half key for the signature
check_key_len ==
    /\ pc = "check_key_len"
    /\ IF server_half_key_len > FLEN_MAX
       THEN /\ heap' = heap \ FreeB
            /\ pc' = "Failed"
            /\ UNCHANGED server_half_key_pem
       ELSE /\ server_half_key_pem' = Head(tmp_bio)
            /\ heap' = heap \cup {"server_half_key_pem"}
            /\ pc' = "send_half_key"
    /\ UNCHANGED <<user_keys, rcvd, sent, client_header_result,
                 tx_username, username, username_len, oob,
                 finder, tmp_bio, client_half_key_pem,
                 client_half_key, keypair, server_half_key_len,
                 server_certificate_len, sign_ctx,
                 server_signature, server_signature_len,
                 kdf_secret, ret, renameVars>>

\* what the error exits release once the copy of the server half key exists
FreeC == FreeB \cup {"server_half_key_pem"}

\* send the server half key from the memory BIO
send_half_key ==
    /\ pc = "send_half_key"
    /\ \/ /\ sent' = Append(sent, Msg("half_key", server_half_key_len, Head(tmp_bio)))
          /\ tmp_bio' = <<>>
          /\ pc' = "fopen_cert"
          /\ UNCHANGED heap
       \/ /\ heap' = heap \ FreeC
          /\ pc' = "Failed"
          /\ UNCHANGED <<sent, tmp_bio>>
    /\ UNCHANGED <<user_keys, rcvd, client_header_result, tx_username,
                 username, username_len, oob, finder,
                 client_half_key_pem, client_half_key, keypair,
                 server_half_key_len, server_half_key_pem,
                 server_certificate_len, sign_ctx,
                 server_signature, server_signature_len,
                 kdf_secret, ret, renameVars>>

\* open the certificate file
fopen_cert ==
    /\ pc = "fopen_cert"
    /\ \/ /\ heap' = heap \cup {"server_certificate_fp"}
          /\ pc' = "read_x509"
       \/ /\ heap' = heap \ FreeC
          /\ pc' = "Failed"
    /\ UNCHANGED <<user_keys, rcvd, sent, client_header_result,
                 tx_username, username, username_len, oob,
                 finder, tmp_bio, client_half_key_pem,
                 client_half_key, keypair, server_half_key_len,
                 server_half_key_pem, server_certificate_len,
                 sign_ctx, server_signature,
                 server_signature_len, kdf_secret, ret,
                 renameVars>>

\* read the certificate into an X509 struct and close the file
read_x509 ==
    /\ pc = "read_x509"
    /\ \/ /\ heap' = (heap \cup {"server_certificate"}) \ {"server_certificate_fp"}
          /\ pc' = "write_x509"
       \/ /\ heap' = heap \ (FreeC \cup {"server_certificate_fp"})
          /\ pc' = "Failed"
    /\ UNCHANGED <<user_keys, rcvd, sent, client_header_result,
                 tx_username, username, username_len, oob,
                 finder, tmp_bio, client_half_key_pem,
                 client_half_key, keypair, server_half_key_len,
                 server_half_key_pem, server_certificate_len,
                 sign_ctx, server_signature,
                 server_signature_len, kdf_secret, ret,
                 renameVars>>

\* write the certificate as PEM to the memory BIO
write_x509 ==
    /\ pc = "write_x509"
    /\ \/ /\ tmp_bio' = Append(tmp_bio, X509)
          /\ pc' = "get_mem_data_cert"
          /\ UNCHANGED heap
       \/ /\ heap' = heap \ FreeC
          /\ pc' = "Failed"
          /\ UNCHANGED tmp_bio
    /\ UNCHANGED <<user_keys, rcvd, sent, client_header_result,
                 tx_username, username, username_len, oob,
                 finder, client_half_key_pem, client_half_key,
                 keypair, server_half_key_len,
                 server_half_key_pem, server_certificate_len,
                 sign_ctx, server_signature,
                 server_signature_len, kdf_secret, ret,
                 renameVars>>

\* get the length of the certificate held by the memory BIO
get_mem_data_cert ==
    /\ pc = "get_mem_data_cert"
    /\ \E n \in 0..(FLEN_MAX + 1) :
        /\ server_certificate_len' = n
        /\ IF n <= 0
           THEN /\ heap' = heap \ FreeC
                /\ pc' = "Failed"
           ELSE /\ pc' = "check_cert_len"
                /\ UNCHANGED heap
    /\ UNCHANGED <<user_keys, rcvd, sent, client_header_result,
                 tx_username, username, username_len, oob,
                 finder, tmp_bio, client_half_key_pem,
                 client_half_key, keypair, server_half_key_len,
                 server_half_key_pem, sign_ctx, server_signature,
                 server_signature_len, kdf_secret, ret,
                 renameVars>>

\* check the certificate length against a bound that is one too large
check_cert_len_off_by_one ==
    /\ pc = "check_cert_len"
    /\ IF server_certificate_len > FLEN_MAX + 1
       THEN /\ heap' = heap \ FreeC
            /\ pc' = "Failed"
       ELSE /\ pc' = "send_cert"
            /\ UNCHANGED heap
    /\ UNCHANGED <<user_keys, rcvd, sent, client_header_result,
                 tx_username, username, username_len, oob,
                 finder, tmp_bio, client_half_key_pem,
                 client_half_key, keypair, server_half_key_len,
                 server_half_key_pem, server_certificate_len,
                 sign_ctx, server_signature,
                 server_signature_len, kdf_secret, ret,
                 renameVars>>

\* check the certificate length against FLEN_MAX
check_cert_len ==
    /\ pc = "check_cert_len"
    /\ IF server_certificate_len > FLEN_MAX
       THEN /\ heap' = heap \ FreeC
            /\ pc' = "Failed"
       ELSE /\ pc' = "send_cert"
            /\ UNCHANGED heap
    /\ UNCHANGED <<user_keys, rcvd, sent, client_header_result,
                 tx_username, username, username_len, oob,
                 finder, tmp_bio, client_half_key_pem,
                 client_half_key, keypair, server_half_key_len,
                 server_half_key_pem, server_certificate_len,
                 sign_ctx, server_signature,
                 server_signature_len, kdf_secret, ret,
                 renameVars>>

\* send the certificate from the memory BIO
send_cert ==
    /\ pc = "send_cert"
    /\ \/ /\ sent' = Append(sent, Msg("certificate", server_certificate_len,
                                     Head(tmp_bio)))
          /\ tmp_bio' = <<>>
          /\ pc' = "md_ctx_new"
          /\ UNCHANGED heap
       \/ /\ heap' = heap \ FreeC
          /\ pc' = "Failed"
          /\ UNCHANGED <<sent, tmp_bio>>
    /\ UNCHANGED <<user_keys, rcvd, client_header_result, tx_username,
                 username, username_len, oob, finder,
                 client_half_key_pem, client_half_key, keypair,
                 server_half_key_len, server_half_key_pem,
                 server_certificate_len, sign_ctx,
                 server_signature, server_signature_len,
                 kdf_secret, ret, renameVars>>

\* allocate and initialise the signing context
md_ctx_new ==
    /\ pc = "md_ctx_new"
    /\ \/ /\ heap' = heap \cup {"server_signature_ctx"}
          /\ sign_ctx' = <<>>
          /\ pc' = "sign_update"
       \/ /\ heap' = heap \ FreeA
          /\ pc' = "Failed"
          /\ UNCHANGED sign_ctx
    /\ UNCHANGED <<user_keys, rcvd, sent, client_header_result,
                 tx_username, username, username_len, oob,
                 finder, tmp_bio, client_half_key_pem,
                 client_half_key, keypair, server_half_key_len,
                 server_half_key_pem, server_certificate_len,
                 server_signature, server_signature_len,
                 kdf_secret, ret, renameVars>>

\* what the error exits of the signing part release
FreeD == FreeA \cup {"server_half_key_pem", "server_signature_ctx"}

\* update the signing context with {client half key, server half key, username}
sign_update ==
    /\ pc = "sign_update"
    /\ \E r1 \in {0, 1}, r2 \in {0, 1}, r3 \in {0, 1} :
        LET err == BitOr(BitOr(BitOr(0, r1), r2), r3) IN
        /\ sign_ctx' = sign_ctx \o Absorb(r1, client_half_key_pem)
                                \o Absorb(r2, server_half_key_pem)
                                \o Absorb(r3, username)
        /\ IF err # 1
           THEN /\ heap' = heap \ FreeD
                /\ pc' = "Failed"
           ELSE /\ pc' = "fopen_key"
                /\ UNCHANGED heap
    /\ UNCHANGED <<user_keys, rcvd, sent, client_header_result,
                 tx_username, username, username_len, oob,
                 finder, tmp_bio, client_half_key_pem,
                 client_half_key, keypair, server_half_key_len,
                 server_half_key_pem, server_certificate_len,
                 server_signature, server_signature_len,
                 kdf_secret, ret, renameVars>>

\* open the server's private key file
fopen_key ==
    /\ pc = "fopen_key"
    /\ \/ /\ heap' = heap \cup {"server_private_key_fp"}
          /\ pc' = "read_private_key"
       \/ /\ heap' = heap \ FreeD
          /\ pc' = "Failed"
    /\ UNCHANGED <<user_keys, rcvd, sent, client_header_result,
                 tx_username, username, username_len, oob,
                 finder, tmp_bio, client_half_key_pem,
                 client_half_key, keypair, server_half_key_len,
                 server_half_key_pem, server_certificate_len,
                 sign_ctx, server_signature,
                 server_signature_len, kdf_secret, ret,
                 renameVars>>

\* read the server's private key and close the file
read_private_key ==
    /\ pc = "read_private_key"
    /\ \/ /\ heap' = (heap \cup {"server_private_key"}) \ {"server_private_key_fp"}
          /\ pc' = "sign_final"
       \/ /\ heap' = heap \ (FreeD \cup {"server_private_key_fp"})
          /\ pc' = "Failed"
    /\ UNCHANGED <<user_keys, rcvd, sent, client_header_result,
                 tx_username, username, username_len, oob,
                 finder, tmp_bio, client_half_key_pem,
                 client_half_key, keypair, server_half_key_len,
                 server_half_key_pem, server_certificate_len,
                 sign_ctx, server_signature,
                 server_signature_len, kdf_secret, ret,
                 renameVars>>

\* allocate the signature buffer, finalise the signature, release the
\* signing context and the two half-key buffers
sign_final ==
    /\ pc = "sign_final"
    /\ \/ \E n \in 1..(FLEN_MAX + 1) :
          /\ server_signature' = Sign(sign_ctx)
          /\ server_signature_len' = n
          /\ heap' = (heap \cup {"server_signature"})
                       \ {"server_signature_ctx", "server_half_key_pem",
                          "client_half_key_pem"}
          /\ pc' = "check_sig_len"
       \/ /\ heap' = heap \ FreeD
          /\ pc' = "Failed"
          /\ UNCHANGED <<server_signature, server_signature_len>>
    /\ UNCHANGED <<user_keys, rcvd, sent, client_header_result,
                 tx_username, username, username_len, oob,
                 finder, tmp_bio, client_half_key_pem,
                 client_half_key, keypair, server_half_key_len,
                 server_half_key_pem, server_certificate_len,
                 sign_ctx, kdf_secret, ret, renameVars>>

\* what the last two error exits release
FreeE == {"username", "server_signature", "client_half_key"}

\* check the signature length against FLEN_MAX
check_sig_len ==
    /\ pc = "check_sig_len"
    /\ IF server_signature_len > FLEN_MAX
       THEN /\ heap' = heap \ FreeE
            /\ pc' = "Failed"
       ELSE /\ pc' = "send_signature"
            /\ UNCHANGED heap
    /\ UNCHANGED <<user_keys, rcvd, sent, client_header_result,
                 tx_username, username, username_len, oob,
                 finder, tmp_bio, client_half_key_pem,
                 client_half_key, keypair, server_half_key_len,
                 server_half_key_pem, server_certificate_len,
                 sign_ctx, server_signature,
                 server_signature_len, kdf_secret, ret,
                 renameVars>>

\* send the signature
send_signature ==
    /\ pc = "send_signature"
    /\ \/ /\ sent' = Append(sent, Msg("signature", server_signature_len,
                                     server_signature))
          /\ pc' = "kdf"
          /\ UNCHANGED heap
       \/ /\ heap' = heap \ FreeE
          /\ pc' = "Failed"
          /\ UNCHANGED sent
    /\ UNCHANGED <<user_keys, rcvd, client_header_result, tx_username,
                 username, username_len, oob, finder, tmp_bio,
                 client_half_key_pem, client_half_key, keypair,
                 server_half_key_len, server_half_key_pem,
                 server_certificate_len, sign_ctx,
                 server_signature, server_signature_len,
                 kdf_secret, ret, renameVars>>

\* derive the symmetric key and return {username, key}
derive_key ==
    /\ pc = "kdf"
    /\ kdf_secret' = <<"placeholder">>
    /\ \/ /\ ret' = <<username, kdf(<<"placeholder">>)>>
          /\ heap' = heap \cup {"session_key"}
          /\ pc' = "Established"
       \/ /\ pc' = "Failed"
          /\ UNCHANGED <<ret, heap>>
    /\ UNCHANGED <<user_keys, rcvd, sent, client_header_result,
                 tx_username, username, username_len, oob,
                 finder, tmp_bio, client_half_key_pem,
                 client_half_key, keypair, server_half_key_len,
                 server_half_key_pem, server_certificate_len,
                 sign_ctx, server_signature,
                 server_signature_len, renameVars>>

Next ==
    \/ setup_keys
    \/ get_mtype
    \/ read_username
    \/ find_user
    \/ bio_new
    \/ read_half_key
    \/ bio_write
    \/ pem_read_pubkey
    \/ send_header
    \/ send_server_name
    \/ gen_keypair
    \/ get_mem_data_key
    \/ check_key_len
    \/ send_half_key
    \/ fopen_cert
    \/ read_x509
    \/ write_x509
    \/ get_mem_data_cert
    \/ check_cert_len
    \/ send_cert
    \/ md_ctx_new
    \/ sign_update
    \/ fopen_key
    \/ read_private_key
    \/ sign_final
    \/ check_sig_len
    \/ send_signature
    \/ derive_key

\* ------------------------------------------------------------------------
\* Helpers of the client side
\* ------------------------------------------------------------------------
Byte == 0..1
IVs == 0..(MaxIV - 1)

\* the session key given to rename()
key == 1

\* filenames typed by the user that fit the field width
FileNames == SeqsUpTo({1}, FNAME_MAX_LEN)

\* string_to_uchar: the name as a field of FNAME_MAX_LEN bytes, zero padded
string_to_uchar(s) ==
    [i \in 1..FNAME_MAX_LEN |-> IF i <= Len(s) THEN s[i] ELSE 0]

\* the content of a fixed-width field up to its padding
RECURSIVE StripPad(_)
StripPad(b) ==
    IF b = <<>> \/ Head(b) = 0 THEN <<>>
    ELSE <<Head(b)>> \o StripPad(Tail(b))

\* the allocations of one rename() call
RenameResources ==
    {"f_old_0", "f_new_0", "f_old", "f_new", "iv", "ctx", "ct", "tag"}

\* the release counters after releasing the allocations in S
Released(cnt, S) ==
    [r \in RenameResources |-> IF r \in S THEN cnt[r] + 1 ELSE cnt[r]]

\* key stream byte at plaintext position p (counted from 0)
KeyStream(k, v, p) == (k + v + p) % 2

\* EVP_EncryptUpdate on plaintext: the cipher text of the bytes in `in`,
\* which continue the plaintext the context has absorbed so far
EncryptUpdate(c, in) ==
    [i \in 1..Len(in) |->
        (in[i] + KeyStream(c.key, c.iv, Len(c.pt) + i - 1)) % 2]

\* the buffer after writing `bytes` at offset off
Write(buf, off, bytes) ==
    [i \in 1..Len(buf) |->
        IF off < i /\ i <= off + Len(bytes) THEN bytes[i - off] ELSE buf[i]]

\* the authentication tag of a context
Tag(c) == <<"tag", c.key, c.iv, c.aad, c.pt>>

\* AEAD decryption of a cipher text under key k, IV v and associated data a
Decrypt(k, v, c) ==
    [i \in 1..Len(c) |-> (c[i] + 2 - KeyStream(k, v, i - 1)) % 2]

\* mtype_to_uc and seqnum_to_uc: the bytes given as associated data
mtype_to_uc(t) == <<"mtype", t>>
seqnum_to_uc == <<"seq", seq_num>>

\* inc_seqnum: the counter after the increment
inc_seqnum(n) == n + 1

NoCtx == [key |-> key, iv |-> 0, aad |-> <<>>, pt |-> <<>>]
NoReleases == [r \in RenameResources |-> 0]

\* ------------------------------------------------------------------------
\* rename(): initial state
\* ------------------------------------------------------------------------
RenameInit ==
    /\ rpc = "idle"
    /\ rheap = {}
    /\ rfreed = NoReleases
    /\ seq_num = 0
    /\ calls = 0
    /\ f_old = <<>>
    /\ f_new = <<>>
    /\ iv = 0
    /\ ctx = NoCtx
    /\ ct = <<>>
    /\ ct_len = 0
    /\ len = 0
    /\ tag = <<>>
    /\ wire = <<>>
    /\ frames = <<>>
    /\ ivs = <<>>

\* ------------------------------------------------------------------------
\* rename(): steps
\* ------------------------------------------------------------------------
\* allocate the two filename buffers and read the two names
read_names ==
    /\ rpc = "idle"
    /\ calls < MaxCalls
    /\ \E a \in FileNames, b \in FileNames :
        /\ f_old' = string_to_uchar(a)
        /\ f_new' = string_to_uchar(b)
    /\ rheap' = {"f_old_0", "f_new_0", "f_old", "f_new"}
    /\ rfreed' = NoReleases
    /\ calls' = calls + 1
    /\ iv' = 0
    /\ ctx' = NoCtx
    /\ ct' = <<>>
    /\ ct_len' = 0
    /\ len' = 0
    /\ tag' = <<>>
    /\ wire' = <<>>
    /\ rpc' = "gen_iv"
    /\ UNCHANGED <<seq_num, frames, ivs, authVars>>

\* generate the IV of the message
gen_iv ==
    /\ rpc = "gen_iv"
    /\ \/ \E v \in IVs :
          /\ iv' = v
          /\ ivs' = Append(ivs, v)
          /\ rheap' = rheap \cup {"iv"}
          /\ rpc' = "send_header"
          /\ UNCHANGED rfreed
       \/ /\ rheap' = rheap \ {"f_old", "f_new"}
          /\ rfreed' = Released(rfreed, {"f_old", "f_new"})
          /\ rpc' = "Failed"
          /\ UNCHANGED <<iv, ivs>>
    /\ UNCHANGED <<seq_num, calls, f_old, f_new, ctx, ct, ct_len, len,
                 tag, wire, frames, authVars>>

\* send the plaintext part: message type, sequence number, IV
rename_send_header ==
    /\ rpc = "send_header"
    /\ \/ /\ wire' = Append(wire, Msg("header", 0, <<RenameReq, seq_num, iv>>))
          /\ frames' = Append(frames, [seq |-> seq_num, iv |-> iv, done |-> FALSE])
          /\ rpc' = "ctx_new"
          /\ UNCHANGED <<rheap, rfreed>>
       \/ /\ rheap' = rheap \ {"iv", "f_old", "f_new"}
          /\ rfreed' = Released(rfreed, {"iv", "f_old", "f_new"})
          /\ rpc' = "Failed"
          /\ UNCHANGED <<wire, frames>>
    /\ UNCHANGED <<seq_num, calls, f_old, f_new, iv, ctx, ct, ct_len,
                 len, tag, ivs, authVars>>

\* allocate the cipher context
cipher_ctx_new ==
    /\ rpc = "ctx_new"
    /\ \/ /\ rheap' = rheap \cup {"ctx"}
          /\ rpc' = "encrypt_init"
          /\ UNCHANGED rfreed
       \/ /\ rheap' = rheap \ {"iv", "f_old", "f_new"}
          /\ rfreed' = Released(rfreed, {"iv", "f_old", "f_new"})
          /\ rpc' = "Failed"
    /\ UNCHANGED <<seq_num, calls, f_old, f_new, iv, ctx, ct, ct_len,
                 len, tag, wire, frames, ivs, authVars>>

\* initialise the encryption with the key and a constant IV
encrypt_init_constant_iv ==
    /\ rpc = "encrypt_init"
    /\ \/ /\ ctx' = [key |-> key, iv |-> 0, aad |-> <<>>, pt |-> <<>>]
          /\ rpc' = "aad_update"
          /\ UNCHANGED <<rheap, rfreed>>
       \/ /\ rheap' = rheap \ {"iv", "f_old", "f_new", "ctx"}
          /\ rfreed' = Released(rfreed, {"iv", "f_old", "f_new", "ctx"})
          /\ rpc' = "Failed"
          /\ UNCHANGED ctx
    /\ UNCHANGED <<seq_num, calls, f_old, f_new, iv, ct, ct_len, len,
                 tag, wire, frames, ivs, authVars>>

\* initialise the encryption with the key and the IV
encrypt_init ==
    /\ rpc = "encrypt_init"
    /\ \/ /\ ctx' = [key |-> key, iv |-> iv, aad |-> <<>>, pt |-> <<>>]
          /\ rpc' = "aad_update"
          /\ UNCHANGED <<rheap, rfreed>>
       \/ /\ rheap' = rheap \ {"iv", "f_old", "f_new", "ctx"}
          /\ rfreed' = Released(rfreed, {"iv", "f_old", "f_new", "ctx"})
          /\ rpc' = "Failed"
          /\ UNCHANGED ctx
    /\ UNCHANGED <<seq_num, calls, f_old, f_new, iv, ct, ct_len, len,
                 tag, wire, frames, ivs, authVars>>

\* give the message type and the sequence number as associated data
aad_update ==
    /\ rpc = "aad_update"
    /\ \E r1 \in {0, 1}, r2 \in {0, 1} :
        LET err == BitOr(BitOr(0, r1), r2) IN
        /\ ctx' = [ctx EXCEPT !.aad = @ \o Absorb(r1, mtype_to_uc(RenameReq))
                                        \o Absorb(r2, seqnum_to_uc)]
        /\ IF err # 1
           THEN /\ rheap' = rheap \ {"iv", "f_old", "f_new", "ctx"}
                /\ rfreed' = Released(rfreed, {"iv", "f_old", "f_new", "ctx"})
                /\ rpc' = "Failed"
           ELSE /\ rpc' = "encrypt_old"
                /\ UNCHANGED <<rheap, rfreed>>
    /\ UNCHANGED <<seq_num, calls, f_old, f_new, iv, ct, ct_len, len,
                 tag, wire, frames, ivs, authVars>>

\* allocate the cipher text buffer and encrypt the field of f_old into it
encrypt_old ==
    /\ rpc = "encrypt_old"
    /\ \E fresh \in [1..(2 * FNAME_MAX_LEN) -> Byte] :
        \/ /\ ct' = Write(fresh, 0, EncryptUpdate(ctx, f_old))
           /\ ctx' = [ctx EXCEPT !.pt = @ \o f_old]
           /\ len' = FNAME_MAX_LEN
           /\ ct_len' = FNAME_MAX_LEN
           /\ rheap' = rheap \cup {"ct"}
           /\ rpc' = "encrypt_new"
           /\ UNCHANGED rfreed
        \/ /\ rheap' = rheap \ {"f_old", "f_new", "iv", "ctx"}
           /\ rfreed' = Released(rfreed, {"f_old", "f_new", "iv", "ct", "ctx"})
           /\ rpc' = "Failed"
           /\ UNCHANGED <<ct, ctx, len, ct_len>>
    /\ UNCHANGED <<seq_num, calls, f_old, f_new, iv, tag, wire, frames,
                 ivs, authVars>>

\* encrypt the field of f_new, again to the start of the buffer
encrypt_new ==
    /\ rpc = "encrypt_new"
    /\ \/ /\ ct' = Write(ct, 0, EncryptUpdate(ctx, f_new))
          /\ ctx' = [ctx EXCEPT !.pt = @ \o f_new]
          /\ len' = FNAME_MAX_LEN
          /\ ct_len' = ct_len + FNAME_MAX_LEN
          /\ rpc' = "encrypt_final"
          /\ UNCHANGED <<rheap, rfreed>>
       \/ /\ rheap' = rheap \ {"f_old", "f_new", "iv", "ct", "ctx"}
          /\ rfreed' = Released(rfreed, {"f_old", "f_new", "iv", "ct", "ctx"})
          /\ rpc' = "Failed"
          /\ UNCHANGED <<ct, ctx, len, ct_len>>
    /\ UNCHANGED <<seq_num, calls, f_old, f_new, iv, tag, wire, frames,
                 ivs, authVars>>

\* finalise the encryption at ct + len: the stream mode has no bytes left
encrypt_final ==
    /\ rpc = "encrypt_final"
    /\ \/ /\ ct' = Write(ct, len, <<>>)
          /\ len' = 0
          /\ ct_len' = ct_len + 0
          /\ rpc' = "get_tag"
          /\ UNCHANGED <<rheap, rfreed>>
       \/ /\ rheap' = rheap \ {"iv", "f_old", "f_new", "ct", "ctx"}
          /\ rfreed' = Released(rfreed, {"iv", "f_old", "f_new", "ct", "ctx"})
          /\ rpc' = "Failed"
          /\ UNCHANGED <<ct, len, ct_len>>
    /\ UNCHANGED <<seq_num, calls, f_old, f_new, iv, ctx, tag, wire,
                 frames, ivs, authVars>>

\* allocate the tag buffer, get the tag, release the IV and the context
get_tag ==
    /\ rpc = "get_tag"
    /\ \/ /\ tag' = Tag(ctx)
          /\ rheap' = (rheap \cup {"tag"}) \ {"iv", "ctx"}
          /\ rfreed' = Released(rfreed, {"iv", "ctx"})
          /\ rpc' = "send_ct"
       \/ /\ rheap' = rheap \ {"iv", "f_old", "f_new", "ct", "ctx"}
          /\ rfreed' = Released(rfreed, {"iv", "f_old", "f_new", "ct", "tag", "ctx"})
          /\ rpc' = "Failed"
          /\ UNCHANGED tag
    /\ UNCHANGED <<seq_num, calls, f_old, f_new, iv, ctx, ct, ct_len,
                 len, wire, frames, ivs, authVars>>

\* send the cipher text without looking at the result of the send
send_ct_unchecked ==
    /\ rpc = "send_ct"
    /\ \/ wire' = Append(wire, Msg("ciphertext", ct_len, SubSeq(ct, 1, ct_len)))
       \/ UNCHANGED wire
    /\ rheap' = rheap \ {"ct"}
    /\ rfreed' = Released(rfreed, {"ct"})
    /\ rpc' = "send_tag"
    /\ UNCHANGED <<seq_num, calls, f_old, f_new, iv, ctx, ct, ct_len,
                 len, tag, frames, ivs, authVars>>

\* send the cipher text as one field
send_ct ==
    /\ rpc = "send_ct"
    /\ \/ /\ wire' = Append(wire, Msg("ciphertext", ct_len, SubSeq(ct, 1, ct_len)))
          /\ rheap' = rheap \ {"ct"}
          /\ rfreed' = Released(rfreed, {"ct"})
          /\ rpc' = "send_tag"
       \/ /\ rheap' = rheap \ {"ct", "tag", "f_old", "f_new"}
          /\ rfreed' = Released(rfreed, {"ct", "tag", "f_old", "f_new"})
          /\ rpc' = "Failed"
          /\ UNCHANGED wire
    /\ UNCHANGED <<seq_num, calls, f_old, f_new, iv, ctx, ct, ct_len,
                 len, tag, frames, ivs, authVars>>

\* send the tag as one field and return without the increment
send_tag_no_inc ==
    /\ rpc = "send_tag"
    /\ rheap' = rheap \ {"tag", "f_old", "f_new"}
    /\ rfreed' = Released(rfreed, {"tag", "f_old", "f_new"})
    /\ \/ /\ wire' = Append(wire, Msg("tag", TAG_LEN, tag))
          /\ frames' = [frames EXCEPT ![Len(frames)].done = TRUE]
          /\ rpc' = "idle"
       \/ /\ rpc' = "Failed"
          /\ UNCHANGED <<wire, frames>>
    /\ UNCHANGED <<seq_num, calls, f_old, f_new, iv, ctx, ct, ct_len,
                 len, tag, ivs, authVars>>

\* send the tag as one field, then increment the sequence number
send_tag ==
    /\ rpc = "send_tag"
    /\ rheap' = rheap \ {"tag", "f_old", "f_new"}
    /\ rfreed' = Released(rfreed, {"tag", "f_old", "f_new"})
    /\ \/ /\ wire' = Append(wire, Msg("tag", TAG_LEN, tag))
          /\ frames' = [frames EXCEPT ![Len(frames)].done = TRUE]
          /\ seq_num' = inc_seqnum(seq_num)
          /\ rpc' = "idle"
       \/ /\ rpc' = "Failed"
          /\ UNCHANGED <<wire, frames, seq_num>>
    /\ UNCHANGED <<calls, f_old, f_new, iv, ctx, ct, ct_len, len, tag,
                 ivs, authVars>>

RenameNext ==
    \/ read_names
    \/ gen_iv
    \/ rename_send_header
    \/ cipher_ctx_new
    \/ encrypt_init
    \/ aad_update
    \/ encrypt_old
    \/ encrypt_new
    \/ encrypt_final
    \/ get_tag
    \/ send_ct
    \/ send_tag

\* ------------------------------------------------------------------------
\* Specifications
\* ------------------------------------------------------------------------
Init == AuthInit /\ RenameInit

\* the server's handshake
Spec == Init /\ [][Next]_vars

\* the client's rename calls on an established connection
RenameSpec == Init /\ [][RenameNext]_vars

\* ------------------------------------------------------------------------
\* Properties.  The statements about authenticate() that the code does not
\* meet are stated for runs with no access outside a buffer (~oob), so that
\* what refutes them is a run whose every step is defined.
\* ------------------------------------------------------------------------
Has(s, x) == \E i \in 1..Len(s) : s[i] = x
IsUser(name) == \E i \in 1..Len(users) : users[i] = name
Parts(s) == [i \in 1..Len(s) |-> s[i].part]

\* C1: authenticate returns (username, session key) only after it has
\* received the client's signature over the transcript and verified it;
\* without it the handshake fails and no key is returned.
C1_EstablishedOnlyAfterClientSignature ==
    (~oob /\ (pc = "Established" \/ ret # <<>>)) =>
        Has(rcvd, "client_signature")

\* C2: on success the secret given to the key derivation is the
\* Diffie-Hellman shared secret of the server's ephemeral private half and
\* the client's ephemeral public key, and the key returned is derived from it.
C2_KeyFromSharedSecret ==
    (~oob /\ pc = "Established") =>
        /\ kdf_secret = DH(keypair, client_half_key)
        /\ ret[2] = kdf(DH(keypair, client_half_key))

\* C3: the cipher text field rename sends is the encryption of
\* old-field || new-field, so that decrypting it with the same key and IV
\* gives back (old, new) after stripping the padding.
C3_CiphertextIsOldThenNew ==
    \A i \in 1..Len(wire) :
        wire[i].part = "ciphertext" =>
            LET pt == Decrypt(key, iv, wire[i].data) IN
            /\ wire[i].data =
                   EncryptUpdate([key |-> key, iv |-> iv, aad |-> <<>>, pt |-> <<>>],
                                 f_old \o f_new)
            /\ Len(pt) = 2 * FNAME_MAX_LEN
            /\ StripPad(SubSeq(pt, 1, FNAME_MAX_LEN)) = StripPad(f_old)
            /\ StripPad(SubSeq(pt, FNAME_MAX_LEN + 1, 2 * FNAME_MAX_LEN))
                   = StripPad(f_new)

\* the allocations C4 lists
HandshakeResources ==
    {"pubkey_alice", "pubkey_bob", "username", "client_half_key_pem",
     "client_half_key", "tmp_bio", "keypair", "server_half_key_pem",
     "server_certificate", "server_signature_ctx", "server_private_key",
     "server_signature"}

\* C4: on every failure exit of authenticate every resource allocated so far
\* in the call has been released.
C4_FailureReleasesAll ==
    (~oob /\ pc = "Failed") => heap \cap HandshakeResources = {}

\* C5: in every state where authenticate has returned (username, session
\* key) the server's ephemeral key pair has been destroyed.
C5_KeypairDestroyedOnReturn ==
    (~oob /\ pc = "Established") => "keypair" \notin heap

\* C6: when the name the server looks up is not a registered user the
\* handshake has failed, no ephemeral key pair has been generated and
\* nothing has been sent.
C6_UnknownUserFailsEarly ==
    (finder # NotLooked /\ ~IsUser(finder)) =>
        /\ pc = "Failed"
        /\ keypair = nullptr
        /\ "keypair" \notin heap
        /\ sent = <<>>

C6_Witness ==
    /\ pc = "Failed"
    /\ finder = eve
    /\ tx_username = eve \o <<NUL>>

\* C7: the server accepts a username only if the bytes transmitted (with or
\* without one terminator) are exactly a registered name, so that two
\* different transmitted names never resolve to the same user.
C7_ExactMatchOfTransmittedName ==
    (~oob /\ finder # NotLooked /\ Found(user_keys, finder)) =>
        /\ IsUser(finder)
        /\ tx_username \in {finder, finder \o <<NUL>>}

\* C8: the signature the server sends is over exactly the client half key as
\* received, the server half key as sent, and the username, in that order.
C8_SignatureOverTranscript ==
    \A i \in 1..Len(sent) :
        (~oob /\ sent[i].part = "signature") =>
            /\ Len(sent) >= 3
            /\ sent[3].part = "half_key"
            /\ sent[i].data = Sign(<<client_half_key_pem, sent[3].data, username>>)

\* the order of the server's messages
ServerAnswer == <<"header", "server_name", "half_key", "certificate", "signature">>

\* C9: the server's messages are sent in the order header (AuthServerAns),
\* name, half key, certificate, signature, each at most once, and none before
\* an AuthStart header, a registered username and a parseable client half key
\* have been received.
C9_ServerSendOrder ==
    /\ Len(sent) <= Len(ServerAnswer)
    /\ Parts(sent) = SubSeq(ServerAnswer, 1, Len(sent))
    /\ sent # <<>> =>
        /\ sent[1].data = <<AuthServerAns>>
        /\ rcvd = <<"mtype", "username", "half_key">>
        /\ ~client_header_result.is_error
        /\ client_header_result.result = AuthStart
        /\ IsUser(finder)
        /\ \E k \in ClientKeys : client_half_key_pem = PEM(k) /\ client_half_key = k

C9_Witness ==
    /\ Parts(sent) = ServerAnswer
    /\ pc = "kdf"

\* C10: if the first message cannot be read or is not AuthStart, the
\* handshake has failed, no username or key field has been read, nothing has
\* been sent and nothing is returned.
C10_BadFirstMessageFails ==
    (/\ client_header_result # [is_error |-> FALSE, result |-> nullptr]
     /\ (client_header_result.is_error \/ client_header_result.result # AuthStart)) =>
        /\ pc = "Failed"
        /\ ~Has(rcvd, "username")
        /\ ~Has(rcvd, "half_key")
        /\ sent = <<>>
        /\ ret = <<>>

C10_Witness ==
    /\ pc = "Failed"
    /\ ~client_header_result.is_error
    /\ client_header_result.result = RenameReq

\* C11: every frame header after the first carries the counter of the frame
\* before it plus one, that frame was sent completely, and the counter has
\* been incremented once per completely sent frame and never otherwise.
C11_SeqNumPerCompleteFrame ==
    /\ \A i \in 2..Len(frames) :
          /\ frames[i - 1].done
          /\ frames[i].seq = frames[i - 1].seq + 1
    /\ seq_num = Cardinality({i \in 1..Len(frames) : frames[i].done})
    /\ frames # <<>> =>
          seq_num = frames[Len(frames)].seq
                      + (IF frames[Len(frames)].done THEN 1 ELSE 0)

C11_Witness ==
    /\ Len(frames) = 2
    /\ frames[2].done
    /\ rpc = "idle"

\* C12: in every frame the associated data authenticated by the tag are the
\* message type and the sequence number sent in the frame header.
C12_HeaderIsAssociatedData ==
    \A i \in 1..Len(wire) :
        wire[i].part = "tag" =>
            wire[i].data[4] = <<mtype_to_uc(wire[1].data[1]),
                                <<"seq", wire[1].data[2]>>>>

\* the positions of rename() at which the encryption has been initialised
Initialised == {"aad_update", "encrypt_old", "encrypt_new", "encrypt_final", "get_tag"}

\* C13: every call gets its IV from gen_iv before it sends anything, the
\* header and the encryption of the call use that IV, and the frame of the
\* i-th call carries the IV the i-th call of gen_iv returned.
C13_IVOfTheCall ==
    /\ Len(ivs) <= calls
    /\ Len(frames) <= Len(ivs)
    /\ \A i \in 1..Len(frames) : frames[i].iv = ivs[i]
    /\ wire # <<>> =>
          /\ Len(ivs) = calls
          /\ wire[1].data[3] = ivs[calls]
    /\ rpc \in Initialised => ctx.iv = ivs[calls]
    /\ tag # <<>> => tag[3] = ivs[calls]

C13_Witness ==
    /\ calls = 2
    /\ Len(frames) = 2
    /\ frames[1].iv # frames[2].iv
    /\ tag # <<>>

\* the variable-length fields of the server's answer
BoundedParts == {"half_key", "certificate", "signature"}

\* C14: the server half key, the certificate and the signature are sent only
\* with a length of at most FLEN_MAX; when the length of one of them exceeds
\* FLEN_MAX the handshake fails at its check and the field is not sent.
C14_FieldsBoundedByFLEN_MAX ==
    /\ \A i \in 1..Len(sent) :
          sent[i].part \in BoundedParts => sent[i].len <= FLEN_MAX
    /\ server_half_key_len > FLEN_MAX =>
          /\ pc \in {"check_key_len", "Failed"}
          /\ ~Has(Parts(sent), "half_key")
    /\ server_certificate_len > FLEN_MAX =>
          /\ pc \in {"check_cert_len", "Failed"}
          /\ ~Has(Parts(sent), "certificate")
    /\ server_signature_len > FLEN_MAX =>
          /\ pc \in {"check_sig_len", "Failed"}
          /\ ~Has(Parts(sent), "signature")

C14_Witness ==
    /\ pc = "Failed"
    /\ server_certificate_len > FLEN_MAX
    /\ Parts(sent) = <<"header", "server_name", "half_key">>

\* the positions of authenticate() at which identity material is loaded
LoadSteps == {"setup_keys", "fopen_cert", "read_x509", "fopen_key", "read_private_key"}

\* C15: a failure to load a user's public key, the server's certificate or
\* the server's private key happens before the server has read or sent any
\* handshake message.
C15_IdentityFailsAtLoadTime ==
    [][(~oob /\ pc \in LoadSteps /\ pc' \in {"Failed", "Aborted"}) =>
           (rcvd = <<>> /\ sent = <<>>)]_vars

\* the parts of a RenameReq on the wire
RenameFrame == <<"header", "ciphertext", "tag">>

\* C16: a call puts on the wire, in this order and each at most once, the
\* header {RenameReq, sequence number, IV}, the cipher text as one field with
\* its length, and the tag as one field of TAG_LEN bytes; the tag is sent
\* only after the cipher text.
C16_RenameFrameLayout ==
    /\ Len(wire) <= Len(RenameFrame)
    /\ Parts(wire) = SubSeq(RenameFrame, 1, Len(wire))
    /\ wire # <<>> =>
          wire[1].data = <<RenameReq,
                           seq_num - (IF Len(wire) = 3 THEN 1 ELSE 0),
                           ivs[calls]>>
    /\ Len(wire) >= 2 =>
          /\ wire[2].len = Len(wire[2].data)
          /\ wire[2].len = ct_len
    /\ Len(wire) = 3 =>
          /\ wire[3].len = TAG_LEN
          /\ wire[3].data = tag

C16_Witness ==
    /\ Parts(wire) = RenameFrame
    /\ rpc = "idle"

\* the positions of authenticate() after the three sign-update calls, and of
\* rename() after the two associated-data update calls, on the success path
AfterSignUpdate ==
    {"fopen_key", "read_private_key", "sign_final", "check_sig_len",
     "send_signature", "kdf", "Established"}
AfterAadUpdate ==
    {"encrypt_old", "encrypt_new", "encrypt_final", "get_tag", "send_ct", "send_tag"}

\* the part of C17 about rename: the call goes on after the associated-data
\* update calls, and sends cipher text or tag, only if both calls succeeded
RenameUpdateFailureIsFatal ==
    /\ rpc \in AfterAadUpdate => Len(ctx.aad) = 2
    /\ Len(wire) >= 2 => Len(ctx.aad) = 2

\* C17: authenticate goes on after the sign-update calls, and sends a
\* signature, only if all three calls succeeded; rename goes on after the
\* associated-data update calls, and sends cipher text or tag, only if both
\* calls succeeded.
C17_UpdateFailureIsFatal ==
    /\ (~oob /\ pc \in AfterSignUpdate) => Len(sign_ctx) = 3
    /\ (~oob /\ Has(Parts(sent), "signature")) => Len(sign_ctx) = 3
    /\ RenameUpdateFailureIsFatal

\* C18: no buffer of a rename() call is released twice, and when the call
\* has ended, in success or in failure, none of its buffers is still
\* allocated.
C18_EveryBufferReleasedOnce ==
    /\ \A r \in RenameResources : rfreed[r] <= 1
    /\ (rpc = "Failed" \/ (rpc = "idle" /\ calls > 0)) => rheap = {}

\* C19: once a username field has been read, the index username_len - 1 of
\* the terminator write is an index of the buffer of username_len bytes, and
\* the username bytes under the signature the server sends are the bytes
\* the client transmitted.
C19_TerminatorInsideAndNameSigned ==
    Has(rcvd, "username") =>
        /\ username_len - 1 \in 0..(username_len - 1)
        /\ (Has(Parts(sent), "signature") /\ Len(sign_ctx) = 3) =>
               sign_ctx[3] = tx_username

\* the second part of C19 for the fields of at least one byte
SignedNameIsTransmittedName ==
    (username_len >= 1 /\ Has(Parts(sent), "signature") /\ Len(sign_ctx) = 3) =>
        sign_ctx[3] = tx_username

\* what holds of the allocations of rename() besides C18: only the first two
\* buffers are left at the end of a call
OnlyFirstBuffersLeft ==
    (rpc = "Failed" \/ (rpc = "idle" /\ calls > 0)) =>
        rheap = {"f_old_0", "f_new_0"}

====
